---- MODULE Spec2Model ----
(***************************************************************************)
(* A model of the jsonassert package (src/assert.go): the equivalence      *)
(* engine behind EqualMap / EqualSlice and the round-trip helper           *)
(* StructCheck.                                                            *)
(*                                                                         *)
(* Go strings are modelled as sequences of one-character strings, so that  *)
(* locations are really built by concatenation and can be taken apart      *)
(* again.  A decoded JSON value (Go's interface{}) is a tagged record.     *)
(***************************************************************************)
EXTENDS Integers, Sequences, FiniteSets, TLC

(***************************************************************************)
(* Bounds of the model.                                                    *)
(***************************************************************************)
\* longest array drawn as an input
MaxLen == 2
\* deepest nesting of the objects drawn as inputs
MaxDepth == 2

(***************************************************************************)
(* Go strings.                                                             *)
(***************************************************************************)
\* the byte value of the characters the model uses (ASCII)
ByteOf(c) ==
    CASE c = " " -> 32
      [] c = "." -> 46
      [] c = "0" -> 48
      [] c = "1" -> 49
      [] c = "2" -> 50
      [] c = "3" -> 51
      [] c = "4" -> 52
      [] c = "5" -> 53
      [] c = "6" -> 54
      [] c = "7" -> 55
      [] c = "8" -> 56
      [] c = "9" -> 57
      [] c = ":" -> 58
      [] c = "[" -> 91
      [] c = "]" -> 93
      [] c = "a" -> 97
      [] c = "b" -> 98
      [] c = "c" -> 99
      [] c = "x" -> 120
      [] c = "y" -> 121
      [] OTHER -> 127

\* Go's s < t on strings: bytewise lexicographic order
RECURSIVE StringLess(_, _)
StringLess(s, t) ==
    IF t = <<>> THEN FALSE
    ELSE IF s = <<>> THEN TRUE
    ELSE IF ByteOf(Head(s)) # ByteOf(Head(t)) THEN ByteOf(Head(s)) < ByteOf(Head(t))
    ELSE StringLess(Tail(s), Tail(t))

\* insert string k into the ascending sequence ks
RECURSIVE InsertSorted(_, _)
InsertSorted(k, ks) ==
    IF ks = <<>> THEN <<k>>
    ELSE IF StringLess(Head(ks), k) THEN <<Head(ks)>> \o InsertSorted(k, Tail(ks))
    ELSE <<k>> \o ks

\* sort.Strings: the strings of ks in ascending order
RECURSIVE SortStrings(_)
SortStrings(ks) ==
    IF ks = <<>> THEN <<>> ELSE InsertSorted(Head(ks), SortStrings(Tail(ks)))

Digits == <<"0", "1", "2", "3", "4", "5", "6", "7", "8", "9">>

\* the decimal rendering of a natural number (the %d verb)
RECURSIVE Itoa(_)
Itoa(i) ==
    IF i < 10 THEN <<Digits[i + 1]>> ELSE Itoa(i \div 10) \o <<Digits[(i % 10) + 1]>>

(***************************************************************************)
(* Decoded JSON values: the six JSON types of README.md as they arrive in  *)
(* an interface{}: nil, bool, float64, string, []interface{} and           *)
(* map[string]interface{}.                                                 *)
(***************************************************************************)
Null == [t |-> "null"]
Bool(b) == [t |-> "bool", b |-> b]
Num(n) == [t |-> "num", n |-> n]
Str(s) == [t |-> "str", s |-> s]
Arr(e) == [t |-> "arr", e |-> e]
Obj(m) == [t |-> "obj", m |-> m]

\* a map without keys; a nil map reads the same way
EmptyMap == [k \in {} |-> Null]

\* m[key] of a Go map: the zero value (a nil interface) when the key is missing
MapIndex(m, key) == IF key \in DOMAIN m THEN m[key] ELSE Null

(***************************************************************************)
(* Rendering of values in messages.                                        *)
(***************************************************************************)
\* the sequence of strings parts joined by single spaces
RECURSIVE JoinSpace(_)
JoinSpace(parts) ==
    IF parts = <<>> THEN <<>>
    ELSE IF Len(parts) = 1 THEN parts[1]
    ELSE parts[1] \o <<" ">> \o JoinSpace(Tail(parts))

\* fmt's %v of a decoded value (maps print their keys in sorted order)
RECURSIVE Sprintv(_)
Sprintv(v) ==
    CASE v.t = "null" -> <<"<", "n", "i", "l", ">">>
      [] v.t = "bool" -> IF v.b THEN <<"t", "r", "u", "e">> ELSE <<"f", "a", "l", "s", "e">>
      [] v.t = "num" -> Itoa(v.n)
      [] v.t = "str" -> v.s
      [] v.t = "arr" ->
            <<"[">> \o JoinSpace([i \in 1..Len(v.e) |-> Sprintv(v.e[i])]) \o <<"]">>
      [] v.t = "obj" ->
            LET ks == SortStrings(CHOOSE q \in [1..Cardinality(DOMAIN v.m) -> DOMAIN v.m] :
                                     \A k \in DOMAIN v.m : \E i \in DOMAIN q : q[i] = k)
            IN <<"m", "a", "p", "[">>
               \o JoinSpace([i \in 1..Len(ks) |-> ks[i] \o <<":">> \o Sprintv(v.m[ks[i]])])
               \o <<"]">>

\* quoteString: strings are rendered quoted (%q), everything else with %v
quoteString(v) ==
    IF v.t = "str" THEN <<"\"">> \o v.s \o <<"\"">> ELSE Sprintv(v)

\* fmt.Errorf: an error is its format and the rendered arguments
Errorf(format, args) == [format |-> format, args |-> args]

\* notifyError: the mismatch diagnostic of one location
notifyError(location, value1, value2) ==
    Errorf("%s mismatch. %v vs. %v", <<location, quoteString(value1), quoteString(value2)>>)

(***************************************************************************)
(* The equivalence engine.  order is the order in which the runtime's map  *)
(* iteration yields keys during this call: a permutation of every key.     *)
(***************************************************************************)
\* getLocation without the test for the root location
getLocationAlwaysDotted(location, key) == location \o <<".">> \o key

\* getLocation: the location of key under location
getLocation(location, key) ==
    IF location = <<>> THEN key ELSE location \o <<".">> \o key

\* the location of element i (counted from 0) under location: "%s[%d]"
indexLocation(location, i) == location \o <<"[">> \o Itoa(i) \o <<"]">>

\* ranging over a map: its keys in the order the runtime picked
rangeKeys(v, order) == SelectSeq(order, LAMBDA k : k \in DOMAIN v)

\* keys without the sort
keysUnsorted(v, order) == rangeKeys(v, order)

\* keys: the keys of the map, sorted
keys(v, order) == SortStrings(rangeKeys(v, order))

\* boolEqual with the test for false dropped from the nil case
boolEqualAnyNil(value1, value2) ==
    value1 = value2 \/ value2 = Null

boolEqual(value1, value2) ==
    value1 = value2 \/ (~value1.b /\ value2 = Null)

\* floatEqual without the nil case
floatEqualStrict(value1, value2) ==
    value1 = value2

floatEqual(value1, value2) ==
    value1 = value2 \/ (value1.n = 0 /\ value2 = Null)

\* stringEqual without the comparison of the two values
stringEqualNilOnly(value1, value2) ==
    value1.s = <<>> /\ value2 = Null

stringEqual(value1, value2) ==
    value1 = value2 \/ (value1.s = <<>> /\ value2 = Null)

\* sliceLen with the test of the kind inverted
sliceLenKindInverted(v) == IF v = Null \/ v.t = "arr" THEN 0 ELSE Len(v.e)

\* sliceLen: 0 for nil and for anything that is not a slice
sliceLen(v) == IF v = Null \/ v.t # "arr" THEN 0 ELSE Len(v.e)

RECURSIVE isEmpty(_, _)
RECURSIVE isMapEmpty(_, _)

\* isEmpty as it once was: of the maps, only the map without keys is empty
isEmptyMapWithoutKeys(value, order) ==
    IF value = Str(<<>>) \/ value = Null \/ value = Num(0) \/ value = Bool(FALSE)
       \/ value = Obj(EmptyMap)
    THEN TRUE
    ELSE value.t = "arr" /\ Len(value.e) = 0

isEmpty(value, order) ==
    IF value = Str(<<>>) \/ value = Null \/ value = Num(0) \/ value = Bool(FALSE)
    THEN TRUE
    ELSE IF value.t = "obj" THEN isMapEmpty(value.m, order)
    ELSE value.t = "arr" /\ Len(value.e) = 0

\* isMapEmpty looking at the keys only, not at their values
isMapEmptyWithoutKeys(value, order) == Len(keys(value, order)) = 0

isMapEmpty(value, order) ==
    LET ks == keys(value, order)
    IN \A i \in 1..Len(ks) : isEmpty(value[ks[i]], order)

RECURSIVE compareMaps(_, _, _, _)
RECURSIVE compareValues(_, _, _, _)
RECURSIVE compareSlices(_, _, _, _)

compareMaps(location, map1, map2, order) ==
    LET ks1 == keys(map1, order)
        ks2 == keys(map2, order)
        loop1[i \in 0..Len(ks1)] ==
            IF i = 0 THEN <<>>
            ELSE loop1[i - 1] \o compareValues(getLocation(location, ks1[i]),
                                               map1[ks1[i]], MapIndex(map2, ks1[i]), order)
        loop2[i \in 0..Len(ks2)] ==
            IF i = 0 THEN <<>>
            ELSE IF ks2[i] \notin DOMAIN map1
                 THEN loop2[i - 1] \o compareValues(getLocation(location, ks2[i]),
                                                    MapIndex(map1, ks2[i]), map2[ks2[i]], order)
                 ELSE loop2[i - 1]
    IN loop1[Len(ks1)] \o loop2[Len(ks2)]

compareValues(location, value1, value2, order) ==
    CASE value1.t = "bool" ->
            IF ~boolEqual(value1, value2)
            THEN <<notifyError(location, value1, value2)>> ELSE <<>>
      [] value1.t = "num" ->
            IF ~floatEqual(value1, value2)
            THEN <<notifyError(location, value1, value2)>> ELSE <<>>
      [] value1.t = "obj" ->
            IF value2 # Null /\ value2.t # "obj"
            THEN <<notifyError(location, value1, value2)>>
            ELSE compareMaps(location, value1.m,
                             IF value2 = Null THEN EmptyMap ELSE value2.m, order)
      [] value1.t = "str" ->
            IF ~stringEqual(value1, value2)
            THEN <<notifyError(location, value1, value2)>> ELSE <<>>
      [] value1.t = "null" ->
            IF ~isEmpty(value2, order)
            THEN <<notifyError(location, value1, value2)>> ELSE <<>>
      [] OTHER -> compareSlices(location, value1, value2, order)

\* compareSlices as it once was: the two kind tests joined by "and"
compareSlicesBothKinds(location, value1, value2, order) ==
    IF value1.t # "arr" /\ (value2.t # "arr" /\ value2 # Null)
    THEN <<notifyError(location, value1, value2)>>
    ELSE LET len1 == sliceLen(value1)
             loop[i \in 0..len1] ==
                 IF i = 0 THEN <<>>
                 ELSE loop[i - 1] \o compareValues(indexLocation(location, i - 1),
                                                   value1.e[i], value2.e[i], order)
         IN IF len1 # sliceLen(value2) THEN <<notifyError(location, value1, value2)>>
            ELSE IF len1 = 0 THEN <<>>
            ELSE loop[len1]

compareSlices(location, value1, value2, order) ==
    IF value1.t # "arr" \/ (value2.t # "arr" /\ value2 # Null)
    THEN <<notifyError(location, value1, value2)>>
    ELSE LET len1 == sliceLen(value1)
             loop[i \in 0..len1] ==
                 IF i = 0 THEN <<>>
                 ELSE loop[i - 1] \o compareValues(indexLocation(location, i - 1),
                                                   value1.e[i], value2.e[i], order)
         IN IF len1 # sliceLen(value2) THEN <<notifyError(location, value1, value2)>>
            ELSE IF len1 = 0 THEN <<>>
            ELSE loop[len1]

(***************************************************************************)
(* JSON texts.  The bytes of a text are not modelled: a text is its form   *)
(* and, when a JSON value can be read from it, that value.  "wellformed"   *)
(* is one JSON value and nothing else; "trailing" is one JSON value        *)
(* followed by further non-space bytes (json.Unmarshal rejects it, a       *)
(* json.Decoder reads the value); "malformed" holds no complete value.     *)
(***************************************************************************)
Text(form, root) == [form |-> form, root |-> root]

\* the nil error
nil == Errorf("<nil>", <<>>)

\* the error json.Unmarshal gives for the syntax of a text, if any
syntaxError(text) ==
    CASE text.form = "malformed" -> Errorf("unexpected end of JSON input", <<>>)
      [] text.form = "trailing" -> Errorf("invalid character after top-level value", <<>>)
      [] OTHER -> nil

\* getJSONMap: the text unmarshalled into a map[string]interface{}
getJSONMap(text) ==
    IF syntaxError(text) # nil THEN [val |-> EmptyMap, err |-> syntaxError(text)]
    ELSE IF text.root.t = "obj" THEN [val |-> text.root.m, err |-> nil]
    ELSE IF text.root = Null THEN [val |-> EmptyMap, err |-> nil]
    ELSE [val |-> EmptyMap,
          err |-> Errorf("json: cannot unmarshal into Go value of type map[string]interface {}", <<>>)]

\* getJSONSlice: the text unmarshalled into a []interface{}.  The slice returned
\* is the one json.Unmarshal filled: the gc compiler makes the call before it
\* reads jsonSlice for the return, which is what TestEqualSlice relies on.
getJSONSlice(text) ==
    IF syntaxError(text) # nil THEN [val |-> Arr(<<>>), err |-> syntaxError(text)]
    ELSE IF text.root.t = "arr" THEN [val |-> text.root, err |-> nil]
    ELSE IF text.root = Null THEN [val |-> Arr(<<>>), err |-> nil]
    ELSE [val |-> Arr(<<>>),
          err |-> Errorf("json: cannot unmarshal into Go value of type []interface {}", <<>>)]

\* the diagnostics of the sides that failed to parse, json1's first
unmarshalErrors(err1, err2) ==
    (IF err1 # nil THEN <<Errorf("error unmarshalling json1: %v", <<err1>>)>> ELSE <<>>)
    \o (IF err2 # nil THEN <<Errorf("error unmarshalling json2: %v", <<err2>>)>> ELSE <<>>)

\* EqualMap returning early only when both sides fail to parse
EqualMapBothFail(json1, json2, order) ==
    LET r1 == getJSONMap(json1)
        r2 == getJSONMap(json2)
    IN IF r1.err # nil /\ r2.err # nil
       THEN unmarshalErrors(r1.err, r2.err)
       ELSE compareMaps(<<>>, r1.val, r2.val, order)

EqualMap(json1, json2, order) ==
    LET r1 == getJSONMap(json1)
        r2 == getJSONMap(json2)
    IN IF r1.err # nil \/ r2.err # nil
       THEN unmarshalErrors(r1.err, r2.err)
       ELSE compareMaps(<<>>, r1.val, r2.val, order)

EqualSlice(json1, json2, order) ==
    LET r1 == getJSONSlice(json1)
        r2 == getJSONSlice(json2)
    IN IF r1.err # nil \/ r2.err # nil
       THEN unmarshalErrors(r1.err, r2.err)
       ELSE compareSlices(<<>>, r1.val, r2.val, order)

(***************************************************************************)
(* Go types and values of a StructCheck target, as far as reflect and      *)
(* encoding/json tell them apart.  Struct fields are named by their JSON   *)
(* key; targets start out as the zero value of their type.                 *)
(***************************************************************************)
TBool == [k |-> "Bool"]
TFloat64 == [k |-> "Float64"]
TString == [k |-> "String"]
TInterface == [k |-> "Interface"]
TChan == [k |-> "Chan"]
TSlice(elem) == [k |-> "Slice", elem |-> elem]
TArray(n, elem) == [k |-> "Array", n |-> n, elem |-> elem]
TMap(elem) == [k |-> "Map", elem |-> elem]
TStruct(fields) == [k |-> "Struct", fields |-> fields]
TPtr(elem) == [k |-> "Ptr", elem |-> elem]

\* the result argument: a nil interface, or a value of a type (for a pointer,
\* whether it is a nil pointer)
NilInterface == [isNil |-> TRUE]
Result(type, nilPtr) == [isNil |-> FALSE, type |-> type, nilPtr |-> nilPtr]

\* Go values: a bool, float64 or string, an interface holding a decoded JSON
\* value, a (possibly nil) slice or map, an array, a struct, a nil channel
GoBool(b) == [k |-> "Bool", b |-> b]
GoFloat64(n) == [k |-> "Float64", n |-> n]
GoString(s) == [k |-> "String", s |-> s]
GoInterface(v) == [k |-> "Interface", v |-> v]
GoChan == [k |-> "Chan"]
GoSlice(isNil, e) == [k |-> "Slice", isNil |-> isNil, e |-> e]
GoArray(e) == [k |-> "Array", e |-> e]
GoMap(isNil, m) == [k |-> "Map", isNil |-> isNil, m |-> m]
GoStruct(f) == [k |-> "Struct", f |-> f]

\* the zero value of a type
RECURSIVE Zero(_)
Zero(T) ==
    CASE T.k = "Bool" -> GoBool(FALSE)
      [] T.k = "Float64" -> GoFloat64(0)
      [] T.k = "String" -> GoString(<<>>)
      [] T.k = "Interface" -> GoInterface(Null)
      [] T.k = "Chan" -> GoChan
      [] T.k = "Slice" -> GoSlice(TRUE, <<>>)
      [] T.k = "Array" -> GoArray([i \in 1..T.n |-> Zero(T.elem)])
      [] T.k = "Map" -> GoMap(TRUE, EmptyMap)
      [] T.k = "Struct" -> GoStruct([f \in DOMAIN T.fields |-> Zero(T.fields[f])])

\* a decoding that failed with a type error
DecodeFailed == [k |-> "error"]

\* encoding/json decoding JSON value v into a zero value of type T: the Go
\* value, or DecodeFailed when some value does not fit its type
RECURSIVE DecodeValue(_, _)
DecodeValue(T, v) ==
    IF v = Null THEN Zero(T)
    ELSE CASE T.k = "Bool" -> IF v.t = "bool" THEN GoBool(v.b) ELSE DecodeFailed
           [] T.k = "Float64" -> IF v.t = "num" THEN GoFloat64(v.n) ELSE DecodeFailed
           [] T.k = "String" -> IF v.t = "str" THEN GoString(v.s) ELSE DecodeFailed
           [] T.k = "Interface" -> GoInterface(v)
           [] T.k = "Chan" -> DecodeFailed
           [] T.k = "Slice" ->
                 IF v.t # "arr" THEN DecodeFailed
                 ELSE LET e == [i \in 1..Len(v.e) |-> DecodeValue(T.elem, v.e[i])]
                      IN IF \E i \in 1..Len(e) : e[i] = DecodeFailed
                         THEN DecodeFailed ELSE GoSlice(FALSE, e)
           [] T.k = "Array" ->
                 IF v.t # "arr" THEN DecodeFailed
                 ELSE LET e == [i \in 1..T.n |->
                                   IF i <= Len(v.e) THEN DecodeValue(T.elem, v.e[i])
                                   ELSE Zero(T.elem)]
                      IN IF \E i \in 1..T.n : e[i] = DecodeFailed
                         THEN DecodeFailed ELSE GoArray(e)
           [] T.k = "Map" ->
                 IF v.t # "obj" THEN DecodeFailed
                 ELSE LET m == [key \in DOMAIN v.m |-> DecodeValue(T.elem, v.m[key])]
                      IN IF \E key \in DOMAIN m : m[key] = DecodeFailed
                         THEN DecodeFailed ELSE GoMap(FALSE, m)
           [] T.k = "Struct" ->
                 IF v.t # "obj" THEN DecodeFailed
                 ELSE LET f == [key \in DOMAIN T.fields |->
                                   IF key \in DOMAIN v.m
                                   THEN DecodeValue(T.fields[key], v.m[key])
                                   ELSE Zero(T.fields[key])]
                      IN IF \E key \in DOMAIN f : f[key] = DecodeFailed
                         THEN DecodeFailed ELSE GoStruct(f)

\* json.NewDecoder(r).Decode(result): the error and the value result points to
Decode(result, text) ==
    IF text.form = "malformed"
    THEN [err |-> Errorf("unexpected EOF", <<>>), val |-> DecodeFailed]
    ELSE IF result.nilPtr
    THEN [err |-> Errorf("json: Unmarshal(nil)", <<>>), val |-> DecodeFailed]
    ELSE LET val == DecodeValue(result.type.elem, text.root)
         IN [err |-> IF val = DecodeFailed THEN Errorf("json: cannot unmarshal", <<>>) ELSE nil,
             val |-> val]

\* a value encoding/json cannot encode
Unsupported == [t |-> "unsupported"]

\* encoding/json encoding a Go value: the JSON value written, or Unsupported
RECURSIVE EncodeValue(_)
EncodeValue(g) ==
    CASE g.k = "Bool" -> Bool(g.b)
      [] g.k = "Float64" -> Num(g.n)
      [] g.k = "String" -> Str(g.s)
      [] g.k = "Interface" -> g.v
      [] g.k = "Chan" -> Unsupported
      [] g.k = "Slice" ->
            IF g.isNil THEN Null
            ELSE LET e == [i \in 1..Len(g.e) |-> EncodeValue(g.e[i])]
                 IN IF \E i \in 1..Len(e) : e[i] = Unsupported THEN Unsupported ELSE Arr(e)
      [] g.k = "Array" ->
            LET e == [i \in 1..Len(g.e) |-> EncodeValue(g.e[i])]
            IN IF \E i \in 1..Len(e) : e[i] = Unsupported THEN Unsupported ELSE Arr(e)
      [] g.k = "Map" ->
            IF g.isNil THEN Null
            ELSE LET m == [key \in DOMAIN g.m |-> EncodeValue(g.m[key])]
                 IN IF \E key \in DOMAIN m : m[key] = Unsupported THEN Unsupported ELSE Obj(m)
      [] g.k = "Struct" ->
            LET m == [key \in DOMAIN g.f |-> EncodeValue(g.f[key])]
            IN IF \E key \in DOMAIN m : m[key] = Unsupported THEN Unsupported ELSE Obj(m)

\* json.NewEncoder(&encodedText).Encode(result): the text left in the buffer
\* (nothing is written when the value cannot be encoded; the error is dropped)
Encode(val) ==
    IF EncodeValue(val) = Unsupported
    THEN Text("malformed", Null)
    ELSE Text("wellformed", EncodeValue(val))

(***************************************************************************)
(* StructCheck.                                                            *)
(***************************************************************************)
\* resultArgCheck: reflect.TypeOf(nil) is a nil Type, and Kind() on it faults
resultArgCheck(result) ==
    IF result.isNil
    THEN [panic |-> TRUE, isMapType |-> FALSE, err |-> nil]
    ELSE LET resKind == result.type.k
             elemKind == IF resKind = "Ptr" THEN result.type.elem.k ELSE "Invalid"
             isMapType == elemKind = "Struct" \/ elemKind = "Map"
         IN [panic |-> FALSE,
             isMapType |-> isMapType,
             err |-> IF resKind # "Ptr" \/
                        (elemKind # "Struct" /\ elemKind # "Map"
                           /\ elemKind # "Slice" /\ elemKind # "Array")
                     THEN Errorf("invalid argument: result must be a pointer to a struct, slice, or map, but got %T",
                                 <<result.type>>)
                     ELSE nil]

\* notifyErrors without the summary
notifyErrorsNoSummary(filename, errors) == errors

\* notifyErrors: what is reported to t for the diagnostics of the engine
notifyErrors(filename, errors) ==
    (IF Len(errors) > 0
     THEN <<Errorf("*** %d errors in %s", <<Len(errors), filename>>)>> ELSE <<>>)
    \o errors

\* StructCheck closing the file as its last statement instead of deferring it:
\* the early return of a failed decode leaves the file open
StructCheckCloseAtEnd(filename, result, files, order) ==
    LET chk == resultArgCheck(result)
        dec == Decode(result, files[filename])
        originalText == files[filename]
        encodedText == Encode(dec.val)
        errors == IF chk.isMapType
                  THEN EqualMap(originalText, encodedText, order)
                  ELSE EqualSlice(originalText, encodedText, order)
    IN IF chk.panic
       THEN [t |-> <<>>, calls |-> <<"resultArgCheck">>, opened |-> 0, closed |-> 0,
             panicked |-> TRUE, errors |-> <<>>]
       ELSE IF chk.err # nil
       THEN [t |-> <<chk.err>>, calls |-> <<"resultArgCheck">>, opened |-> 0, closed |-> 0,
             panicked |-> FALSE, errors |-> <<>>]
       ELSE IF filename \notin DOMAIN files
       THEN [t |-> <<Errorf("open %s: no such file or directory", <<filename>>)>>,
             calls |-> <<"resultArgCheck", "Open">>, opened |-> 0, closed |-> 0,
             panicked |-> FALSE, errors |-> <<>>]
       ELSE IF dec.err # nil
       THEN [t |-> <<Errorf("error decoding json in %s: %v", <<filename, dec.err>>)>>,
             calls |-> <<"resultArgCheck", "Open", "Decode">>,
             opened |-> 1, closed |-> 0, panicked |-> FALSE, errors |-> <<>>]
       ELSE [t |-> notifyErrors(filename, errors),
             calls |-> <<"resultArgCheck", "Open", "Decode", "Encode",
                         IF chk.isMapType THEN "EqualMap" ELSE "EqualSlice",
                         "notifyErrors", "Close">>,
             opened |-> 1, closed |-> 1, panicked |-> FALSE, errors |-> errors]

\* StructCheck on the file system files (file name -> text): the messages
\* reported to t, the calls made in order, how often the file was opened and
\* closed, whether the call faulted, and the diagnostics of the engine
StructCheck(filename, result, files, order) ==
    LET chk == resultArgCheck(result)
        dec == Decode(result, files[filename])
        originalText == files[filename]
        encodedText == Encode(dec.val)
        errors == IF chk.isMapType
                  THEN EqualMap(originalText, encodedText, order)
                  ELSE EqualSlice(originalText, encodedText, order)
    IN IF chk.panic
       THEN [t |-> <<>>, calls |-> <<"resultArgCheck">>, opened |-> 0, closed |-> 0,
             panicked |-> TRUE, errors |-> <<>>]
       ELSE IF chk.err # nil
       THEN [t |-> <<chk.err>>, calls |-> <<"resultArgCheck">>, opened |-> 0, closed |-> 0,
             panicked |-> FALSE, errors |-> <<>>]
       ELSE IF filename \notin DOMAIN files
       THEN [t |-> <<Errorf("open %s: no such file or directory", <<filename>>)>>,
             calls |-> <<"resultArgCheck", "Open">>, opened |-> 0, closed |-> 0,
             panicked |-> FALSE, errors |-> <<>>]
       ELSE IF dec.err # nil
       THEN [t |-> <<Errorf("error decoding json in %s: %v", <<filename, dec.err>>)>>,
             calls |-> <<"resultArgCheck", "Open", "Decode", "Close">>,
             opened |-> 1, closed |-> 1, panicked |-> FALSE, errors |-> <<>>]
       ELSE [t |-> notifyErrors(filename, errors),
             calls |-> <<"resultArgCheck", "Open", "Decode", "Encode",
                         IF chk.isMapType THEN "EqualMap" ELSE "EqualSlice",
                         "notifyErrors", "Close">>,
             opened |-> 1, closed |-> 1, panicked |-> FALSE, errors |-> errors]

(***************************************************************************)
(* The inputs the calls are tried on.                                      *)
(***************************************************************************)
KeyA == <<"a">>
KeyB == <<"b">>
KeyC == <<"c">>
AllKeys == {KeyA, KeyB, KeyC}

\* the orders a map iteration is taken to yield the keys in: ascending and descending
Orders == {<<KeyA, KeyB, KeyC>>, <<KeyC, KeyB, KeyA>>}

\* a key that is left out of an object (an element left out of an array)
Absent == [t |-> "absent"]

Scalars == {Null, Bool(FALSE), Bool(TRUE), Num(0), Num(1), Str(<<>>), Str(<<"x">>)}
ArrayElems == {Num(0), Str(<<"x">>)}
Arrays == {Arr(e) : e \in UNION {[1..n -> ArrayElems] : n \in 0..MaxLen}}
ObjectFields == {Absent, Null, Str(<<>>), Str(<<"x">>)}

\* the one-key map key -> v, or no key when v is left out
Field(key, v) == IF v = Absent THEN EmptyMap ELSE (key :> v)
\* the one-element sequence of v, or no element when v is left out
Elem(v) == IF v = Absent THEN <<>> ELSE <<v>>

Objects == {Obj(Field(KeyA, va) @@ Field(KeyB, vb)) : va \in ObjectFields, vb \in ObjectFields}

\* the values put in the place where the two documents differ
SlotValues == Scalars \cup Arrays \cup Objects \cup {Absent}

Contexts ==
    {"key", "sibling", "mixed", "nested", "element", "elementNested", "rootElement", "rootNested"}

\* the document of side 1 or 2 that holds v in the place context c names
Embed(c, side, v) ==
    CASE c = "key" -> Obj(Field(KeyA, v))
      [] c = "sibling" -> Obj((KeyA :> Str(<<"x">>)) @@ Field(KeyB, v))
      [] c = "mixed" ->
            IF side = 1 THEN Obj((KeyC :> Bool(TRUE)) @@ Field(KeyB, v))
            ELSE Obj((KeyA :> Bool(TRUE)) @@ Field(KeyB, v))
      [] c = "nested" -> Obj(KeyA :> Obj(Field(KeyB, v)))
      [] c = "element" -> Obj(KeyA :> Arr(Elem(v)))
      [] c = "elementNested" -> Obj(KeyA :> Arr(<<Null, Obj(Field(KeyB, v))>>))
      [] c = "rootElement" -> Arr(Elem(v))
      [] c = "rootNested" -> Arr(<<Str(<<"x">>), Obj(Field(KeyA, v))>>)

\* pairs of well-formed documents that differ in one place
SlotPairs ==
    {<<Text("wellformed", Embed(c, 1, v1)), Text("wellformed", Embed(c, 2, v2))>> :
        c \in Contexts, v1 \in SlotValues, v2 \in SlotValues}

\* texts that do not parse, or whose root is not what an entry point expects
OddTexts ==
    {Text("malformed", Null),
     Text("trailing", Obj(KeyA :> Str(<<"x">>))),
     Text("trailing", Arr(<<Str(<<"x">>)>>)),
     Text("wellformed", Null),
     Text("wellformed", Num(1)),
     Text("wellformed", Obj(EmptyMap)),
     Text("wellformed", Obj(KeyA :> Str(<<"x">>))),
     Text("wellformed", Arr(<<>>)),
     Text("wellformed", Arr(<<Str(<<"x">>)>>))}

\* what the keys of a nested object hold besides objects
NestLeaves == {Absent, Null, Str(<<>>), Str(<<"x">>), Arr(<<>>), Arr(<<Null>>)}

\* the objects nested up to d deep
RECURSIVE NestedObjects(_)
NestedObjects(d) ==
    IF d = 0 THEN {}
    ELSE {Obj(Field(KeyA, f) @@ Field(KeyB, g)) :
             f \in NestLeaves \cup NestedObjects(d - 1), g \in {Absent, Str(<<"x">>)}}

NestedValues ==
    {Absent, Arr(<<>>), Arr(<<Null>>)} \cup Scalars \cup NestedObjects(MaxDepth)

\* pairs of well-formed documents that differ in one place, nested objects
\* among the values there
NestedPairs ==
    {<<Text("wellformed", Embed(c, 1, v1)), Text("wellformed", Embed(c, 2, v2))>> :
        c \in {"key", "element", "rootElement"}, v1 \in NestedValues, v2 \in NestedValues}

SourceFile == "testdata/input.json"
FileNames == {SourceFile, "bogus.json"}

SubStruct == TStruct((KeyA :> TString) @@ (KeyB :> TString))

\* a struct of a struct, a slice and a struct
NestedStruct ==
    TStruct((KeyA :> TStruct(KeyB :> TString)) @@ (KeyB :> TSlice(TString)) @@ (KeyC :> SubStruct))

\* the result arguments StructCheck is tried on
Results ==
    {NilInterface,
     Result(SubStruct, FALSE),
     Result(TString, FALSE),
     Result(TPtr(TString), FALSE),
     Result(TPtr(TFloat64), FALSE),
     Result(TPtr(TPtr(SubStruct)), FALSE),
     Result(TPtr(SubStruct), FALSE),
     Result(TPtr(SubStruct), TRUE),
     Result(TPtr(TStruct((KeyA :> TInterface) @@ (KeyB :> TInterface) @@ (KeyC :> TInterface))), FALSE),
     Result(TPtr(TStruct((KeyA :> TInterface) @@ (KeyC :> TChan))), FALSE),
     Result(TPtr(TStruct(KeyC :> TString)), FALSE),
     Result(TPtr(NestedStruct), FALSE),
     Result(TPtr(TStruct((KeyA :> TSlice(TInterface)) @@ (KeyB :> TArray(1, TString)))), FALSE),
     Result(TPtr(TStruct(KeyA :> TArray(1, TInterface))), FALSE),
     Result(TPtr(TMap(TInterface)), FALSE),
     Result(TPtr(TSlice(TInterface)), FALSE),
     Result(TPtr(TArray(1, TInterface)), FALSE)}

(***************************************************************************)
(* The state: the arguments of the calls, and what the last call left.     *)
(***************************************************************************)
VARIABLES
    json1,      \* first argument of EqualMap/EqualSlice; the text of SourceFile
    json2,      \* second argument of EqualMap/EqualSlice
    filename,   \* the file name given to StructCheck
    result,     \* the result argument given to StructCheck
    op,         \* the last call made
    errors,     \* the diagnostics the engine returned in the last call
    t,          \* the messages the last StructCheck reported to t
    calls,      \* the calls the last StructCheck made, in order
    opened,     \* how often the last StructCheck opened the file
    closed,     \* how often the last StructCheck closed the file
    panicked    \* whether the last StructCheck faulted

vars == <<json1, json2, filename, result, op, errors, t, calls, opened, closed, panicked>>
inputs == <<json1, json2, filename, result>>

\* the files that exist
files == (SourceFile :> json1)

NoCall ==
    /\ op = "none"
    /\ errors = <<>>
    /\ t = <<>>
    /\ calls = <<>>
    /\ opened = 0
    /\ closed = 0
    /\ panicked = FALSE

\* the documents compared, and a fixed target for StructCheck
Init ==
    /\ \E p \in SlotPairs \cup (OddTexts \X OddTexts) :
          /\ json1 = p[1]
          /\ json2 = p[2]
    /\ filename = SourceFile
    /\ result = Result(TPtr(TMap(TInterface)), FALSE)
    /\ NoCall

\* the documents and targets of StructCheck
InitStructCheck ==
    /\ json1 \in {p[1] : p \in SlotPairs} \cup OddTexts
    /\ json2 = json1
    /\ filename \in FileNames
    /\ result \in Results
    /\ NoCall

\* documents with nested objects, and a fixed target for StructCheck
InitNested ==
    /\ \E p \in NestedPairs :
          /\ json1 = p[1]
          /\ json2 = p[2]
    /\ filename = SourceFile
    /\ result = Result(TPtr(TMap(TInterface)), FALSE)
    /\ NoCall

CallEqualMap ==
    \E order \in Orders :
        /\ op' = "EqualMap"
        /\ errors' = EqualMap(json1, json2, order)
        /\ t' = <<>>
        /\ calls' = <<>>
        /\ opened' = 0
        /\ closed' = 0
        /\ panicked' = FALSE
        /\ UNCHANGED inputs

CallEqualSlice ==
    \E order \in Orders :
        /\ op' = "EqualSlice"
        /\ errors' = EqualSlice(json1, json2, order)
        /\ t' = <<>>
        /\ calls' = <<>>
        /\ opened' = 0
        /\ closed' = 0
        /\ panicked' = FALSE
        /\ UNCHANGED inputs

CallStructCheck ==
    \E order \in Orders :
        LET r == StructCheck(filename, result, files, order)
        IN /\ op' = "StructCheck"
           /\ errors' = r.errors
           /\ t' = r.t
           /\ calls' = r.calls
           /\ opened' = r.opened
           /\ closed' = r.closed
           /\ panicked' = r.panicked
           /\ UNCHANGED inputs

Next == CallEqualMap \/ CallEqualSlice \/ CallStructCheck

Spec == Init /\ [][Next]_vars

SpecStructCheck == InitStructCheck /\ [][Next]_vars

SpecNested == InitNested /\ [][Next]_vars

(***************************************************************************)
(* What the properties speak of: the places where two documents differ,    *)
(* and the locations the specification gives them.                         *)
(***************************************************************************)
\* the location of key under location loc: keys joined with "."
JoinKey(loc, key) == IF loc = <<>> THEN key ELSE loc \o <<".">> \o key

\* the location of index i (from 0) under location loc: "[i]" appended
JoinIndex(loc, i) == loc \o <<"[">> \o Itoa(i) \o <<"]">>

\* the value at key of object v, Absent when the key is left out
FieldOf(v, key) == IF key \in DOMAIN v.m THEN v.m[key] ELSE Absent

\* The places where v1 and v2 differ: objects are entered key by key, arrays
\* of one length element by element; any other pair of different values is
\* one place, with its location and whether it is the value of a key.
RECURSIVE DiffSlots(_, _, _, _)
DiffSlots(v1, v2, loc, isKey) ==
    IF v1 = v2 THEN {}
    ELSE IF v1.t = "obj" /\ v2.t = "obj"
    THEN UNION {DiffSlots(FieldOf(v1, key), FieldOf(v2, key), JoinKey(loc, key), TRUE) :
                   key \in DOMAIN v1.m \cup DOMAIN v2.m}
    ELSE IF v1.t = "arr" /\ v2.t = "arr" /\ Len(v1.e) = Len(v2.e)
    THEN UNION {DiffSlots(v1.e[i], v2.e[i], JoinIndex(loc, i - 1), FALSE) : i \in 1..Len(v1.e)}
    ELSE {[location |-> loc, left |-> v1, right |-> v2, isKey |-> isKey]}

\* the last call was EqualMap on two well-formed object documents
ComparedMaps ==
    /\ op = "EqualMap"
    /\ json1.form = "wellformed" /\ json1.root.t = "obj"
    /\ json2.form = "wellformed" /\ json2.root.t = "obj"

\* the last call was EqualSlice on two well-formed array documents
ComparedSlices ==
    /\ op = "EqualSlice"
    /\ json1.form = "wellformed" /\ json1.root.t = "arr"
    /\ json2.form = "wellformed" /\ json2.root.t = "arr"

\* the places where the two documents differ
Slots == DiffSlots(json1.root, json2.root, <<>>, FALSE)

IsMismatch(e) == e.format = "%s mismatch. %v vs. %v"

\* the diagnostics (by position) that are mismatches at location loc
MismatchesAt(loc) == {i \in 1..Len(errors) : IsMismatch(errors[i]) /\ errors[i].args[1] = loc}

\* s begins with p
HasPrefix(s, p) == Len(p) <= Len(s) /\ SubSeq(s, 1, Len(p)) = p

\* the diagnostics (by position) located strictly below location loc
MismatchesBelow(loc) ==
    {i \in 1..Len(errors) :
        /\ IsMismatch(errors[i])
        /\ \/ HasPrefix(errors[i].args[1], loc \o <<"[">>)
           \/ loc # <<>> /\ HasPrefix(errors[i].args[1], loc \o <<".">>)
           \/ loc = <<>> /\ errors[i].args[1] # <<>>}

ZeroValues == {Str(<<>>), Num(0), Bool(FALSE), Arr(<<>>), Obj(EmptyMap), Null}

IsNonZeroScalar(v) == v.t \in {"bool", "num", "str"} /\ v \notin ZeroValues

\* one side holds a zero value, the other leaves the key out or holds null
NilEquivalentSlot(s) ==
    \/ s.left \in ZeroValues /\ s.right \in {Absent, Null}
    \/ s.right \in ZeroValues /\ s.left \in {Absent, Null}

\* one side holds a non-zero scalar, the other leaves the key out or holds null
NonZeroVsNilSlot(s) ==
    \/ IsNonZeroScalar(s.left) /\ s.right \in {Absent, Null}
    \/ IsNonZeroScalar(s.right) /\ s.left \in {Absent, Null}

\* an array on the left against an array of another length, or a non-empty
\* array on the left against null or nothing
LengthMismatchSlot(s) ==
    /\ s.left.t = "arr"
    /\ \/ s.right.t = "arr" /\ Len(s.right.e) # Len(s.left.e)
       \/ s.right \in {Absent, Null} /\ Len(s.left.e) > 0

JsonTypes == {"bool", "num", "str", "arr", "obj"}

\* two values of different JSON types, neither null nor left out
TypeMismatchSlot(s) ==
    /\ s.left.t \in JsonTypes
    /\ s.right.t \in JsonTypes
    /\ s.left.t # s.right.t

(***************************************************************************)
(* C1  Reflexivity: comparing a valid document with itself (object-rooted  *)
(* with EqualMap, array-rooted with EqualSlice) yields no diagnostic.      *)
(***************************************************************************)
C1_Reflexivity ==
    ((ComparedMaps \/ ComparedSlices) /\ json1 = json2) => errors = <<>>

C1_Witness ==
    /\ ComparedMaps
    /\ json1 = json2
    /\ json1.root = Obj(KeyA :> Obj((KeyA :> Str(<<"x">>)) @@ (KeyB :> Null)))
    /\ errors = <<>>

(***************************************************************************)
(* C2  Nil-equivalence: when the two object documents differ only at keys  *)
(* where one holds a zero value ("", 0, false, [], {} or null) and the     *)
(* other leaves the key out or holds null, at any depth and in either      *)
(* argument order, EqualMap yields no diagnostic.                          *)
(***************************************************************************)
C2_NilEquivalence ==
    (ComparedMaps /\ \A s \in Slots : s.isKey /\ NilEquivalentSlot(s)) => errors = <<>>

C2_Witness ==
    /\ ComparedMaps
    /\ json1.root = Obj(KeyA :> Obj(EmptyMap))
    /\ json2.root = Obj(KeyA :> Obj(KeyB :> Arr(<<>>)))
    /\ errors = <<>>

(***************************************************************************)
(* C3  A non-zero scalar (true, a non-zero number, a non-empty string) at  *)
(* a key that the other document leaves out or holds null at yields        *)
(* exactly one diagnostic at the key's location, in either argument order; *)
(* when this is the only difference it is the only diagnostic.             *)
(***************************************************************************)
C3_NonZeroScalarVsNil ==
    ComparedMaps =>
        /\ \A s \in Slots :
              (s.isKey /\ NonZeroVsNilSlot(s)) => Cardinality(MismatchesAt(s.location)) = 1
        /\ (Cardinality(Slots) = 1 /\ \A s \in Slots : s.isKey /\ NonZeroVsNilSlot(s))
              => Len(errors) = 1

C3_Witness ==
    /\ ComparedMaps
    /\ json1.root = Obj(KeyA :> Obj(EmptyMap))
    /\ json2.root = Obj(KeyA :> Obj(KeyB :> Bool(TRUE)))
    /\ Len(errors) = 1
    /\ errors[1].args[1] = <<"a", ".", "b">>

(***************************************************************************)
(* C4  Array length mismatch: an array on the left against an array of a   *)
(* different length (or against null/nothing, the left array not being     *)
(* empty) yields exactly one diagnostic at the array's own location and    *)
(* none for the elements under it.                                         *)
(***************************************************************************)
C4_ArrayLengthMismatch ==
    (ComparedMaps \/ ComparedSlices) =>
        \A s \in Slots :
            LengthMismatchSlot(s) =>
                /\ Cardinality(MismatchesAt(s.location)) = 1
                /\ MismatchesBelow(s.location) = {}

C4_Witness ==
    /\ ComparedMaps
    /\ json1.root = Obj(KeyA :> Arr(<<Num(0), Str(<<"x">>)>>))
    /\ json2.root = Obj(KeyA :> Arr(<<Str(<<"x">>)>>))
    /\ Len(errors) = 1
    /\ errors[1].args[1] = KeyA

(***************************************************************************)
(* C5  Type-shape mismatch: two non-null values of different JSON types    *)
(* at a location (zero values of different types included) yield exactly   *)
(* one diagnostic at that location and none below it.                      *)
(***************************************************************************)
C5_TypeShapeMismatch ==
    (ComparedMaps \/ ComparedSlices) =>
        \A s \in Slots :
            TypeMismatchSlot(s) =>
                /\ Cardinality(MismatchesAt(s.location)) = 1
                /\ MismatchesBelow(s.location) = {}

C5_Witness ==
    /\ ComparedMaps
    /\ json1.root = Obj(KeyA :> Arr(<<>>))
    /\ json2.root = Obj(KeyA :> Obj(EmptyMap))
    /\ Len(errors) = 1
    /\ errors[1].args[1] = KeyA

(***************************************************************************)
(* C6  Unparseable input: when a side fails to parse, the result is one    *)
(* parse diagnostic per failed side, json1's before json2's, and nothing   *)
(* else.                                                                   *)
(***************************************************************************)
\* text does not unmarshal into the root type the entry point o expects
ParseFails(o, text) ==
    \/ text.form # "wellformed"
    \/ o = "EqualMap" /\ text.root.t \notin {"obj", "null"}
    \/ o = "EqualSlice" /\ text.root.t \notin {"arr", "null"}

C6_Unparseable ==
    (op \in {"EqualMap", "EqualSlice"} /\ (ParseFails(op, json1) \/ ParseFails(op, json2))) =>
        /\ Len(errors) = (IF ParseFails(op, json1) THEN 1 ELSE 0)
                         + (IF ParseFails(op, json2) THEN 1 ELSE 0)
        /\ ParseFails(op, json1) => errors[1].format = "error unmarshalling json1: %v"
        /\ ParseFails(op, json2) => errors[Len(errors)].format = "error unmarshalling json2: %v"

C6_Witness ==
    /\ op = "EqualMap"
    /\ json1.form = "malformed"
    /\ json2 = Text("wellformed", Obj(KeyA :> Str(<<"x">>)))
    /\ Len(errors) = 1
    /\ errors[1].format = "error unmarshalling json1: %v"

(***************************************************************************)
(* C7  Determinism of the diagnostic order: calling an entry point again   *)
(* on the same documents gives the same diagnostics whatever order the map *)
(* iteration takes; within each object the diagnostics of the left         *)
(* object's keys come first in ascending key order, each key's diagnostics *)
(* together, then those of the keys only the right object has, ascending;  *)
(* array elements are reported in ascending index order.                   *)
(***************************************************************************)
\* the elements of the set of strings S in ascending order
SortedKeys(S) ==
    CHOOSE q \in [1..Cardinality(S) -> S] :
        \A i \in DOMAIN q : \A j \in DOMAIN q : i < j => StringLess(q[i], q[j])

\* location loc is location p or lies below it
Under(loc, p) ==
    loc = p \/ HasPrefix(loc, p \o <<".">>) \/ HasPrefix(loc, p \o <<"[">>)

\* the locations locs, all at or below p where v1 stands against v2, come in
\* the order the claim describes
RECURSIVE WellOrdered(_, _, _, _)
WellOrdered(locs, p, v1, v2) ==
    IF v1.t = "obj" /\ v2.t \in {"obj", "null", "absent"}
    THEN LET o2 == IF v2.t = "obj" THEN v2 ELSE Obj(EmptyMap)
             ks == SortedKeys(DOMAIN v1.m) \o SortedKeys(DOMAIN o2.m \ DOMAIN v1.m)
             child(j) == JoinKey(p, ks[j])
             rank(i) == CHOOSE j \in 1..Len(ks) : Under(locs[i], child(j))
         IN /\ \A i \in 1..Len(locs) : \E j \in 1..Len(ks) : Under(locs[i], child(j))
            /\ \A i \in 1..Len(locs) : \A i2 \in 1..Len(locs) : i < i2 => rank(i) <= rank(i2)
            /\ \A j \in 1..Len(ks) :
                  WellOrdered(SelectSeq(locs, LAMBDA l : Under(l, child(j))), child(j),
                              FieldOf(v1, ks[j]), FieldOf(o2, ks[j]))
    ELSE IF v1.t = "arr" /\ v2.t = "arr" /\ Len(v1.e) = Len(v2.e)
    THEN LET child(j) == JoinIndex(p, j - 1)
             rank(i) == CHOOSE j \in 1..Len(v1.e) : Under(locs[i], child(j))
         IN /\ \A i \in 1..Len(locs) : \E j \in 1..Len(v1.e) : Under(locs[i], child(j))
            /\ \A i \in 1..Len(locs) : \A i2 \in 1..Len(locs) : i < i2 => rank(i) <= rank(i2)
            /\ \A j \in 1..Len(v1.e) :
                  WellOrdered(SelectSeq(locs, LAMBDA l : Under(l, child(j))), child(j),
                              v1.e[j], v2.e[j])
    ELSE Len(locs) <= 1 /\ \A i \in 1..Len(locs) : locs[i] = p

\* the locations of the diagnostics, in order
Locations == [i \in 1..Len(errors) |-> errors[i].args[1]]

C7_Ordered ==
    (ComparedMaps \/ ComparedSlices) => WellOrdered(Locations, <<>>, json1.root, json2.root)

C7_DeterministicOrder ==
    /\ []C7_Ordered
    /\ [][(op \in {"EqualMap", "EqualSlice"} /\ op' = op) => errors' = errors]_vars

C7_Witness ==
    /\ ComparedMaps
    /\ json1.root = Obj((KeyC :> Bool(TRUE)) @@ (KeyB :> Obj(KeyB :> Str(<<"x">>))))
    /\ json2.root = Obj((KeyA :> Bool(TRUE)) @@ (KeyB :> Obj(KeyA :> Str(<<"x">>))))
    /\ Locations = <<<<"b", ".", "b">>, <<"b", ".", "a">>, <<"c">>, <<"a">>>>

(***************************************************************************)
(* C8  StructCheck argument validation: for every target that is not a     *)
(* pointer to a struct, map, slice or array (a nil target included),       *)
(* StructCheck reports exactly one 'invalid argument' diagnostic, does     *)
(* nothing else, and does not fault.                                       *)
(***************************************************************************)
InvalidTarget(r) ==
    \/ r.isNil
    \/ r.type.k # "Ptr"
    \/ r.type.elem.k \notin {"Struct", "Map", "Slice", "Array"}

InvalidArgumentFormat ==
    "invalid argument: result must be a pointer to a struct, slice, or map, but got %T"

C8_ArgumentValidation ==
    (op = "StructCheck" /\ InvalidTarget(result)) =>
        /\ ~panicked
        /\ Len(t) = 1
        /\ t[1].format = InvalidArgumentFormat
        /\ calls = <<"resultArgCheck">>
        /\ opened = 0

(***************************************************************************)
(* C9  StructCheck stage ordering: argument check, open, decode,           *)
(* re-encode, compare run in that order; the first of argument check,      *)
(* open or decode that fails reports exactly one diagnostic and no later   *)
(* stage runs, so neither a comparison diagnostic nor a summary comes with *)
(* an open or decode failure.                                              *)
(***************************************************************************)
\* the stages in the order they are to run
StageOrder(o) == <<"resultArgCheck", "Open", "Decode", "Encode", o, "notifyErrors">>

\* the stages that ran, in order (closing the file is no stage)
StagesRun == SelectSeq(calls, LAMBDA c : c # "Close")

\* seq s is an initial part of seq q
IsPrefix(s, q) == Len(s) <= Len(q) /\ SubSeq(q, 1, Len(s)) = s

C9_StageOrdering ==
    op = "StructCheck" =>
        /\ IsPrefix(StagesRun, StageOrder("EqualMap")) \/ IsPrefix(StagesRun, StageOrder("EqualSlice"))
        /\ InvalidTarget(result) =>
              /\ StagesRun = <<"resultArgCheck">>
              /\ Len(t) = 1
              /\ t[1].format = InvalidArgumentFormat
        /\ (~InvalidTarget(result) /\ filename \notin DOMAIN files) =>
              /\ StagesRun = <<"resultArgCheck", "Open">>
              /\ Len(t) = 1
              /\ t[1] = Errorf("open %s: no such file or directory", <<filename>>)
        /\ (~InvalidTarget(result) /\ filename \in DOMAIN files
              /\ Decode(result, files[filename]).err # nil) =>
              /\ StagesRun = <<"resultArgCheck", "Open", "Decode">>
              /\ Len(t) = 1
              /\ t[1] = Errorf("error decoding json in %s: %v",
                               <<filename, Decode(result, files[filename]).err>>)

(***************************************************************************)
(* C10  StructCheck summary: when the engine returns N diagnostics,        *)
(* StructCheck reports nothing for N = 0 and otherwise N+1 messages: the   *)
(* summary "*** N errors in <filename>" and then the N diagnostics in the  *)
(* engine's order.                                                         *)
(***************************************************************************)
\* the last StructCheck got as far as calling the engine
EngineRan == \E i \in 1..Len(calls) : calls[i] \in {"EqualMap", "EqualSlice"}

C10_Summary ==
    (op = "StructCheck" /\ EngineRan) =>
        t = IF Len(errors) = 0 THEN <<>>
            ELSE <<Errorf("*** %d errors in %s", <<Len(errors), filename>>)>> \o errors

C10_Witness ==
    /\ op = "StructCheck"
    /\ EngineRan
    /\ Len(errors) = 2
    /\ Len(t) = 3
    /\ t[1] = Errorf("*** %d errors in %s", <<2, SourceFile>>)

(***************************************************************************)
(* C11  Resource release: on every exit path of StructCheck (invalid       *)
(* argument, open failure, decode failure, normal completion) the source   *)
(* file is not left open: it was never opened, or it is closed before      *)
(* StructCheck returns, and it is closed at most once.                     *)
(***************************************************************************)
\* how often call c was made in the last StructCheck
CallCount(c) == Cardinality({i \in 1..Len(calls) : calls[i] = c})

\* the exit path the last StructCheck is to take on its inputs
ExitPath ==
    IF InvalidTarget(result) THEN "invalid argument"
    ELSE IF filename \notin DOMAIN files THEN "open failure"
    ELSE IF Decode(result, files[filename]).err # nil THEN "decode failure"
    ELSE "normal completion"

C11_ResourceRelease ==
    op = "StructCheck" =>
        /\ closed <= 1
        /\ closed = opened
        /\ CallCount("Close") = closed
        /\ ExitPath \in {"invalid argument", "open failure"} => opened = 0
        /\ ExitPath \in {"decode failure", "normal completion"} =>
              /\ opened = 1
              /\ calls[Len(calls)] = "Close"
              /\ \E i \in 1..Len(calls) : calls[i] = "Open"

C11_Witness ==
    /\ op = "StructCheck"
    /\ ExitPath = "decode failure"
    /\ opened = 1
    /\ closed = 1
    /\ calls = <<"resultArgCheck", "Open", "Decode", "Close">>

(***************************************************************************)
(* C12  Round-trip: for a well-formed object-rooted source and a struct    *)
(* container whose fields cover every key of the document with matching    *)
(* types, StructCheck reports nothing; also when the container has further *)
(* fields that the document leaves out or sets to null.                    *)
(* As stated the claim fails for a field that is a fixed-size array: left  *)
(* out or null in the document, it is written back as an array of zero     *)
(* values, which is not equivalent to nothing.  It holds when every field  *)
(* the document leaves out or sets to null is of a type whose zero value   *)
(* is written as null, "", 0, false, [] or an object of such values.       *)
(***************************************************************************)
\* values of type T can be written as JSON
RECURSIVE Representable(_)
Representable(T) ==
    CASE T.k = "Chan" -> FALSE
      [] T.k \in {"Slice", "Array", "Map"} -> Representable(T.elem)
      [] T.k = "Struct" -> \A f \in DOMAIN T.fields : Representable(T.fields[f])
      [] OTHER -> TRUE

\* the zero value of type T is written as null, "", 0, false, [] or an object
\* of such values
RECURSIVE ZeroWrittenEmpty(_)
ZeroWrittenEmpty(T) ==
    CASE T.k = "Chan" -> FALSE
      [] T.k = "Array" -> T.n = 0
      [] T.k = "Struct" -> \A f \in DOMAIN T.fields : ZeroWrittenEmpty(T.fields[f])
      [] OTHER -> TRUE

\* a field of type T may be left out or set to null
MayBeNull(T, strict) == IF strict THEN ZeroWrittenEmpty(T) ELSE Representable(T)

\* type T matches the JSON value v: a struct has a field for every key of an
\* object, an array has the length of the JSON array
RECURSIVE Matches(_, _, _)
Matches(T, v, strict) ==
    IF v = Null THEN MayBeNull(T, strict)
    ELSE CASE T.k = "Bool" -> v.t = "bool"
           [] T.k = "Float64" -> v.t = "num"
           [] T.k = "String" -> v.t = "str"
           [] T.k = "Interface" -> TRUE
           [] T.k = "Chan" -> FALSE
           [] T.k = "Slice" ->
                 v.t = "arr" /\ \A i \in 1..Len(v.e) : Matches(T.elem, v.e[i], strict)
           [] T.k = "Array" ->
                 /\ v.t = "arr"
                 /\ Len(v.e) = T.n
                 /\ \A i \in 1..Len(v.e) : Matches(T.elem, v.e[i], strict)
           [] T.k = "Map" ->
                 v.t = "obj" /\ \A key \in DOMAIN v.m : Matches(T.elem, v.m[key], strict)
           [] T.k = "Struct" ->
                 /\ v.t = "obj"
                 /\ DOMAIN v.m \subseteq DOMAIN T.fields
                 /\ \A key \in DOMAIN v.m : Matches(T.fields[key], v.m[key], strict)
                 /\ \A f \in DOMAIN T.fields \ DOMAIN v.m : MayBeNull(T.fields[f], strict)

\* the last call was StructCheck of an existing, well-formed object-rooted
\* source into a struct
RoundTripped ==
    /\ op = "StructCheck"
    /\ filename \in DOMAIN files
    /\ json1.form = "wellformed"
    /\ json1.root.t = "obj"
    /\ ~result.isNil
    /\ result.type.k = "Ptr"
    /\ ~result.nilPtr
    /\ result.type.elem.k = "Struct"

\* the last StructCheck went through all its stages and reported nothing
ReportedNothing ==
    /\ ~panicked
    /\ EngineRan
    /\ errors = <<>>
    /\ t = <<>>

\* the claim as stated: any field may be left out or set to null
C12_RoundTripAnyField ==
    (RoundTripped /\ Matches(result.type.elem, json1.root, FALSE)) => ReportedNothing

C12_RoundTrip ==
    (RoundTripped /\ Matches(result.type.elem, json1.root, TRUE)) => ReportedNothing

C12_Witness ==
    /\ RoundTripped
    /\ result.type.elem = NestedStruct
    /\ json1.root = Obj(KeyA :> Obj(KeyB :> Str(<<"x">>)))
    /\ Matches(result.type.elem, json1.root, TRUE)
    /\ ReportedNothing

(***************************************************************************)
(* C13  Diagnostic location: every mismatch diagnostic of EqualMap and     *)
(* EqualSlice carries the full path from the root of the documents to the  *)
(* mismatching value: object keys joined with "." (none leading at the     *)
(* root), "[i]" appended for the index of an array element (an element of  *)
(* a root array is "[i]", a key under it "[i].key"), and shows the two     *)
(* values found there.  A key with a non-empty value missing only inside a *)
(* nested object yields exactly one diagnostic, at "parent.key".           *)
(***************************************************************************)
\* element i (from 1) of array v, Absent when there is none
ElemOf(v, i) == IF i <= Len(v.e) THEN v.e[i] ELSE Absent

\* the keys of v when it is an object
KeysOf(v) == IF v.t = "obj" THEN DOMAIN v.m ELSE {}

\* the indices of v when it is an array
IndicesOf(v) == IF v.t = "arr" THEN 1..Len(v.e) ELSE {}

\* every path into v1 or v2 with the values the two hold at its end
RECURSIVE Places(_, _, _)
Places(v1, v2, loc) ==
    {[location |-> loc, left |-> v1, right |-> v2]}
    \cup UNION {Places(IF key \in KeysOf(v1) THEN v1.m[key] ELSE Absent,
                       IF key \in KeysOf(v2) THEN v2.m[key] ELSE Absent,
                       JoinKey(loc, key)) : key \in KeysOf(v1) \cup KeysOf(v2)}
    \cup UNION {Places(IF i \in IndicesOf(v1) THEN v1.e[i] ELSE Absent,
                       IF i \in IndicesOf(v2) THEN v2.e[i] ELSE Absent,
                       JoinIndex(loc, i - 1)) : i \in IndicesOf(v1) \cup IndicesOf(v2)}

\* how a diagnostic shows value v: a string quoted, nothing as nil
Shown(v) ==
    IF v = Absent THEN Sprintv(Null)
    ELSE IF v.t = "str" THEN <<"\"">> \o v.s \o <<"\"">>
    ELSE Sprintv(v)

\* diagnostic e is located at a path into the documents and shows the two
\* different values found there
WellLocated(e) ==
    \E pl \in Places(json1.root, json2.root, <<>>) :
        /\ pl.left # pl.right
        /\ e.args = <<pl.location, Shown(pl.left), Shown(pl.right)>>

\* a non-zero scalar or a non-empty array
IsNonEmptyLeaf(v) == IsNonZeroScalar(v) \/ (v.t = "arr" /\ Len(v.e) > 0)

\* a key of a nested object that holds a non-empty value on one side and is
\* left out on the other
NestedMissingKey(s) ==
    /\ s.isKey
    /\ \E i \in 1..Len(s.location) : s.location[i] = "."
    /\ \/ IsNonEmptyLeaf(s.left) /\ s.right = Absent
       \/ IsNonEmptyLeaf(s.right) /\ s.left = Absent

C13_DiagnosticLocation ==
    (ComparedMaps \/ ComparedSlices) =>
        /\ \A i \in 1..Len(errors) : IsMismatch(errors[i]) /\ WellLocated(errors[i])
        /\ (Cardinality(Slots) = 1 /\ \A s \in Slots : NestedMissingKey(s)) =>
              /\ Len(errors) = 1
              /\ \A s \in Slots : errors[1].args[1] = s.location

C13_Witness ==
    /\ ComparedSlices
    /\ json1.root = Arr(<<Str(<<"x">>), Obj(KeyA :> Str(<<"x">>))>>)
    /\ json2.root = Arr(<<Str(<<"x">>), Obj(EmptyMap)>>)
    /\ Len(errors) = 1
    /\ errors[1].args = <<<<"[", "1", "]", ".", "a">>, <<"\"", "x", "\"">>, <<"<", "n", "i", "l", ">">>>>

(***************************************************************************)
(* C14  Null (or nothing) on the left against an object on the right       *)
(* yields no diagnostic if every value of the object is recursively empty  *)
(* (null, "", 0, false, an array without elements, or an object that is    *)
(* itself recursively empty), and otherwise exactly one diagnostic at the  *)
(* object's own path and none for its keys; an object on the left against  *)
(* null or nothing on the right is descended into and yields one           *)
(* diagnostic for each non-empty leaf, at the leaf's path.                 *)
(***************************************************************************)
RECURSIVE RecursivelyEmpty(_)
RecursivelyEmpty(v) ==
    \/ v \in {Null, Str(<<>>), Num(0), Bool(FALSE), Arr(<<>>)}
    \/ v.t = "obj" /\ \A key \in DOMAIN v.m : RecursivelyEmpty(v.m[key])

\* the leaves of v (the values reached through the keys of objects that are
\* not objects themselves) that are not empty, with their paths
RECURSIVE NonEmptyLeaves(_, _)
NonEmptyLeaves(v, loc) ==
    IF v.t = "obj"
    THEN UNION {NonEmptyLeaves(v.m[key], JoinKey(loc, key)) : key \in DOMAIN v.m}
    ELSE IF RecursivelyEmpty(v) THEN {} ELSE {loc}

C14_NullVersusObject ==
    (ComparedMaps \/ ComparedSlices) =>
        \A s \in Slots :
            /\ (s.left \in {Null, Absent} /\ s.right.t = "obj") =>
                  /\ Cardinality(MismatchesAt(s.location))
                        = IF RecursivelyEmpty(s.right) THEN 0 ELSE 1
                  /\ MismatchesBelow(s.location) = {}
            /\ (s.left.t = "obj" /\ s.right \in {Null, Absent}) =>
                  /\ MismatchesAt(s.location) = {}
                  /\ \A loc \in NonEmptyLeaves(s.left, s.location) :
                        Cardinality(MismatchesAt(loc)) = 1
                  /\ Cardinality(MismatchesBelow(s.location))
                        = Cardinality(NonEmptyLeaves(s.left, s.location))

C14_Witness ==
    /\ ComparedMaps
    /\ json1.root = Obj(KeyA :> Null)
    /\ json2.root = Obj(KeyA :> Obj((KeyA :> Obj(KeyA :> Str(<<>>))) @@ (KeyB :> Str(<<"x">>))))
    /\ Len(errors) = 1
    /\ errors[1].args[1] = KeyA

(***************************************************************************)
(* C15  Symmetry of the verdict: for two parseable object documents A and  *)
(* B, EqualMap(A, B) returns no diagnostic if and only if EqualMap(B, A)   *)
(* returns none (the number and the paths of the diagnostics may differ).  *)
(***************************************************************************)
C15_VerdictSymmetry ==
    ComparedMaps =>
        \A order \in Orders : (errors = <<>>) <=> (EqualMap(json2, json1, order) = <<>>)

C15_Witness ==
    /\ ComparedMaps
    /\ json1.root = Obj(KeyA :> Obj((KeyA :> Str(<<"x">>)) @@ (KeyB :> Str(<<"x">>))))
    /\ json2.root = Obj(KeyA :> Null)
    /\ Len(errors) = 2
    /\ Len(EqualMap(json2, json1, <<KeyA, KeyB, KeyC>>)) = 1

====
